---- MODULE Spec2Model ----
(***************************************************************************)
(* UbuntuV2Preprocessor (deeppavlov/models/preprocessors/                  *)
(* ubuntu_v2_preprocessor.py): fit, the generator behind __call__, save    *)
(* and load, together with the collaborators they call (tokenizer,         *)
(* vocabulary, zero_pad_truncate).                                         *)
(*                                                                         *)
(* A Python str is a sequence of one-character strings, a token is a str,  *)
(* a list is a sequence.  '' is << >>.                                     *)
(***************************************************************************)
EXTENDS Integers, Sequences, FiniteSets, TLC

\* ------------------------------------------------------------------ bounds
MaxTokens == 3          \* words of the sentence the turns are cut from
MaxTurns == 3           \* turns of one sample
MaxBatch == 2           \* samples (or strings) of one raw batch
MaxSeqLen == 2          \* largest configured max_sequence_length
MaxContextTurns == 1    \* largest configured num_context_turns
MaxRankingSamples == 2  \* largest configured num_ranking_samples
MaxFits == 1            \* fit calls of one behaviour
MaxPersist == 2         \* save calls, and load calls, of one behaviour

\* ------------------------------------------------------------- the inputs
Letters == <<"a", "b", "c", "d", "e">>

\* the words: aa, b, c, ...
Word(k) == IF k = 1 THEN <<Letters[1], Letters[1]>> ELSE <<Letters[k]>>

Sentence == [k \in 1..MaxTokens |-> Word(k)]

RECURSIVE Join(_, _)
Join(parts, sep) ==
    IF Len(parts) = 0 THEN << >>
    ELSE IF Len(parts) = 1 THEN parts[1]
    ELSE parts[1] \o <<sep>> \o Join(Tail(parts), sep)

\* the turns: the sentence cut after its k-th word, '' among them
TurnStrings == {Join(SubSeq(Sentence, 1, k), " ") : k \in 0..MaxTokens}

Samples(k) == [1..k -> TurnStrings]

TurnLists == UNION {Samples(k) : k \in 1..MaxTurns}

\* a batch of turn-lists: one sample, or several samples of one turn each
ListBatches ==
    {<<s>> : s \in TurnLists}
    \cup UNION {[1..m -> Samples(1)] : m \in 2..MaxBatch}

\* a training corpus: turn-lists whose turns are '' or the whole sentence
FitCorpora == {b \in ListBatches :
                 \A i \in 1..Len(b) : \A j \in 1..Len(b[i]) :
                     b[i][j] \in {<< >>, Join(Sentence, " ")}}

\* a batch of strings: one '&'-joined string, or several plain strings
StrBatches ==
    {<<Join(s, "&")>> : s \in TurnLists}
    \cup UNION {[1..m -> TurnStrings] : m \in 2..MaxBatch}

\* x of __call__: isstr is isinstance(x[0], str)
RawBatches ==
    {[isstr |-> FALSE, items |-> << >>]}
    \cup {[isstr |-> TRUE, items |-> b] : b \in StrBatches}
    \cup {[isstr |-> FALSE, items |-> b] : b \in ListBatches}

NoBatch == [isstr |-> FALSE, items |-> << >>]

\* ------------------------------------------------------------------ state
VARIABLES
    max_sequence_length, dynamic_batch, padding, truncating,
    num_context_turns, num_ranking_samples,   \* self.* set by __init__
    vocab,              \* the vocabulary: its id -> token table
    tok_calls,          \* arguments of the tokenizer calls made so far
    vocab_calls,        \* arguments of the vocabulary id-mapping calls
    vocab_fit_calls,    \* arguments of the vocabulary fit calls
    vocab_saves, vocab_loads,   \* calls of vocab.save() and vocab.load()
    fit_x,              \* the corpora fit() was called with, in order
    saves, loads,       \* calls of save() and load() of the component
    x,                  \* the raw batch the generator was made for
    pc,                 \* idle | created | suspended | closed
    x_preproc,          \* the normalized samples
    idx,                \* samples consumed by the for loop
    out,                \* the records yielded so far
    msls,               \* msl of each yielded record
    thrown,             \* what a collaborator threw: none | TokenizerError | VocabError
    raised              \* what the last next() raised to the caller, if anything

config == <<max_sequence_length, dynamic_batch, padding, truncating,
            num_context_turns, num_ranking_samples>>

collab == <<vocab, tok_calls, vocab_calls, vocab_fit_calls, vocab_saves, vocab_loads>>

counters == <<fit_x, saves, loads>>

gen == <<x, pc, x_preproc, idx, out, msls, thrown, raised>>

vars == <<config, collab, counters, gen>>

\* ---------------------------------------------------------- collaborators
RECURSIVE SplitOn(_, _)
\* str.split(sep) for a one-character sep: empty parts are kept
SplitOn(s, c) ==
    IF \E i \in 1..Len(s) : s[i] = c
    THEN LET i == CHOOSE i \in 1..Len(s) : s[i] = c /\ \A j \in 1..(i - 1) : s[j] # c
         IN  <<SubSeq(s, 1, i - 1)>> \o SplitOn(SubSeq(s, i + 1, Len(s)), c)
    ELSE <<s>>

\* the tokenizer on one string: the whitespace-separated words, none empty
Tokenize(s) == SelectSeq(SplitOn(s, " "), LAMBDA p : Len(p) > 0)

\* self.tokenizer(el): one token sequence per string, in order
Tokenizer(el) == [j \in 1..Len(el) |-> Tokenize(el[j])]

UNK == <<"<UNK>">>

\* the special tokens: '' has id 0 (the pad id), the unknown token id 1
SpecialTokens == << << >>, UNK >>

RECURSIVE Distinct(_, _)
Distinct(seen, toks) ==
    IF Len(toks) = 0 THEN seen
    ELSE IF \E i \in 1..Len(seen) : seen[i] = Head(toks)
         THEN Distinct(seen, Tail(toks))
         ELSE Distinct(Append(seen, Head(toks)), Tail(toks))

RECURSIVE Flatten(_)
Flatten(ss) == IF Len(ss) = 0 THEN << >> ELSE Head(ss) \o Flatten(Tail(ss))

\* a Python value with its type: a str, a list
PyStr(s) == [str |-> s]

PyList(l) == [list |-> l]

\* vocab.fit(list of token lists): the special tokens, then every token once
VocabFit(arg) == Distinct(SpecialTokens, Flatten([k \in 1..Len(arg) |-> arg[k].list]))

\* the id of a token: 0-based position in the table, unknown tokens get 1
T2I(v, t) ==
    IF \E i \in 1..Len(v) : v[i] = t
    THEN (CHOOSE i \in 1..Len(v) : v[i] = t) - 1
    ELSE 1

\* the token of an id
I2T(v, i) == v[i + 1]

\* self.vocab(x_ctok): one id sequence per token sequence, in order
Vocab(v, toklists) ==
    [j \in 1..Len(toklists) |-> [k \in 1..Len(toklists[j]) |-> T2I(v, toklists[j][k])]]

Zeros(n) == [i \in 1..n |-> 0]

\* zero_pad_truncate(batch, max_len, pad, trunc)
zero_pad_truncate(batch, max_len, pad, trunc) ==
    [j \in 1..Len(batch) |->
        LET items == batch[j] IN
        IF Len(items) > max_len
        THEN IF trunc = "post"
             THEN SubSeq(items, 1, max_len)
             ELSE SubSeq(items, Len(items) - max_len + 1, Len(items))
        ELSE IF pad = "post"
             THEN items \o Zeros(max_len - Len(items))
             ELSE Zeros(max_len - Len(items)) \o items]

\* the vocabularies a fit can have left behind
FittedVocabs == {VocabFit(<<PyList(SubSeq(Sentence, 1, k))>>) : k \in {1, MaxTokens}}

\* ------------------------------------------------------ the component
Min2(a, b) == IF a <= b THEN a ELSE b

MaxOf(s) == CHOOSE m \in {s[i] : i \in 1..Len(s)} : \A i \in 1..Len(s) : s[i] <= m

\* el[:n]
Cut(el, n) == SubSeq(el, 1, Min2(n, Len(el)))

\* lines 91-99: x_preproc
Normalize(xb) ==
    IF Len(xb.items) = 0 \/ xb.isstr
    THEN IF Len(xb.items) = 1
         THEN [i \in 1..Len(xb.items) |-> SplitOn(xb.items[i], "&")]
         ELSE IF Len(xb.items) = 0
              THEN << << << >> >> >>
              ELSE [i \in 1..Len(xb.items) |-> <<xb.items[i]>>]
    ELSE [i \in 1..Len(xb.items) |->
             Cut(xb.items[i], num_context_turns + num_ranking_samples)]

\* line 102 without the substitution: empty token sequences pass through
CtokKeepEmpty(x_tok) == [j \in 1..Len(x_tok) |-> x_tok[j]]

\* line 102: x_ctok
Ctok(x_tok) ==
    [j \in 1..Len(x_tok) |-> IF Len(x_tok[j]) # 0 THEN x_tok[j] ELSE << << >> >>]

\* line 105: [len(y) for el in x_tok for y in el]
CharLens(x_tok) ==
    LET ys == Flatten(x_tok) IN [k \in 1..Len(ys) |-> Len(ys[k])]

\* line 105: max() of an empty list raises ValueError
MslRaises(x_tok) == dynamic_batch /\ Len(CharLens(x_tok)) = 0

\* lines 104-107: msl
Msl(x_tok) ==
    IF dynamic_batch
    THEN Min2(MaxOf(CharLens(x_tok)), max_sequence_length)
    ELSE max_sequence_length

\* line 108 with the two directions exchanged
PadTruncateSwapped(x_proc, msl) == zero_pad_truncate(x_proc, msl, truncating, padding)

\* line 108 with the padding direction used for truncation too
PadTruncatePadOnly(x_proc, msl) == zero_pad_truncate(x_proc, msl, padding, padding)

\* line 108
PadTruncate(x_proc, msl) == zero_pad_truncate(x_proc, msl, padding, truncating)

Arr(a) == [ndarray |-> a]

\* lines 109-110: list(x_proc) + el
Assemble(x_proc, el) ==
    [j \in 1..Len(x_proc) |-> Arr(x_proc[j])] \o [j \in 1..Len(el) |-> PyStr(el[j])]

\* the loop with the exception caught: the sample is skipped
RaiseSwallowed(exc) ==
    /\ pc' = "suspended"
    /\ idx' = idx + 1
    /\ UNCHANGED <<out, msls, raised>>

\* an exception leaves the generator: nothing in lines 100-112 catches it
Raise(exc) ==
    /\ pc' = "closed"
    /\ raised' = exc
    /\ UNCHANGED <<idx, out, msls>>

\* line 112
Yield(rec, msl) ==
    /\ pc' = "suspended"
    /\ idx' = idx + 1
    /\ out' = Append(out, rec)
    /\ msls' = Append(msls, msl)
    /\ raised' = "none"

\* __call__(x): calling a generator function runs none of its body
Call ==
    /\ pc = "idle"
    /\ \E xb \in RawBatches : x' = xb
    /\ pc' = "created"
    /\ UNCHANGED <<config, collab, counters, x_preproc, idx, out, msls, thrown, raised>>

\* next() on the generator: lines 91-99 on the first call, then one turn of
\* the loop of lines 100-112, up to the yield, an exception or the end
GenNext ==
    /\ pc \in {"created", "suspended", "closed"}
    /\ LET xp == IF pc = "created" THEN Normalize(x) ELSE x_preproc IN
       /\ x_preproc' = xp
       /\ IF pc = "closed" \/ idx >= Len(xp)
          THEN /\ pc' = "closed"
               /\ raised' = "StopIteration"
               /\ UNCHANGED <<idx, out, msls, thrown, tok_calls, vocab_calls>>
          ELSE LET el == xp[idx + 1]
                   x_tok == Tokenizer(el)
                   x_ctok == Ctok(x_tok)
                   x_proc == Vocab(vocab, x_ctok)
               IN  \E outcome \in {"ok", "TokenizerError", "VocabError"} :
                     /\ tok_calls' = Append(tok_calls, el)
                     /\ vocab_calls' = IF outcome = "TokenizerError" THEN vocab_calls
                                       ELSE Append(vocab_calls, x_ctok)
                     /\ IF outcome # "ok"
                        THEN thrown' = outcome /\ Raise(outcome)
                        ELSE /\ UNCHANGED thrown
                             /\ IF MslRaises(x_tok)
                                THEN Raise("ValueError")
                                ELSE Yield(Assemble(PadTruncate(x_proc, Msl(x_tok)), el),
                                           Msl(x_tok))
    /\ UNCHANGED <<config, vocab, vocab_fit_calls, vocab_saves, vocab_loads, counters, x>>

\* line 87 with each sample cut as __call__ cuts it
FitTokenizerArgsCut(xc) ==
    [i \in 1..Len(xc) |-> Cut(xc[i], num_context_turns + num_ranking_samples)]

\* line 87: the arguments of the tokenizer calls, [el for el in x]
FitTokenizerArgs(xc) == [i \in 1..Len(xc) |-> xc[i]]

\* line 88: [el for x in x_tok for el in x]
FitArg(x_tok) == LET els == Flatten(x_tok) IN [k \in 1..Len(els) |-> PyList(els[k])]

\* lines 86-88
fit ==
    /\ Len(fit_x) < MaxFits
    /\ \E xc \in FitCorpora :
         LET args == FitTokenizerArgs(xc)
             x_tok == [i \in 1..Len(args) |-> Tokenizer(args[i])]
         IN  /\ tok_calls' = tok_calls \o args
             /\ vocab_fit_calls' = Append(vocab_fit_calls, FitArg(x_tok))
             /\ vocab' = VocabFit(FitArg(x_tok))
             /\ fit_x' = Append(fit_x, xc)
    /\ UNCHANGED <<config, vocab_calls, vocab_saves, vocab_loads, saves, loads, gen>>

\* lines 114-115
load ==
    /\ loads < MaxPersist
    /\ loads' = loads + 1
    /\ UNCHANGED <<config, collab, fit_x, saves, gen>>

\* save() that leaves the vocabulary alone, as load() does
saveNoDelegate ==
    /\ saves < MaxPersist
    /\ saves' = saves + 1
    /\ UNCHANGED <<config, collab, fit_x, loads, gen>>

\* lines 117-118
save ==
    /\ saves < MaxPersist
    /\ saves' = saves + 1
    /\ vocab_saves' = vocab_saves + 1
    /\ UNCHANGED <<config, vocab, tok_calls, vocab_calls, vocab_fit_calls, vocab_loads,
                   fit_x, loads, gen>>

\* lines 57-81, and a vocabulary that a fit has filled
Init ==
    /\ max_sequence_length \in {1, MaxSeqLen}
    /\ dynamic_batch \in BOOLEAN
    /\ padding \in {"pre", "post"}
    /\ truncating \in {"pre", "post"}
    /\ num_context_turns \in 1..MaxContextTurns
    /\ num_ranking_samples \in {1, MaxRankingSamples}
    /\ vocab \in FittedVocabs
    /\ tok_calls = << >>
    /\ vocab_calls = << >>
    /\ vocab_fit_calls = << >>
    /\ vocab_saves = 0
    /\ vocab_loads = 0
    /\ fit_x = << >>
    /\ saves = 0
    /\ loads = 0
    /\ x = NoBatch
    /\ pc = "idle"
    /\ x_preproc = << >>
    /\ idx = 0
    /\ out = << >>
    /\ msls = << >>
    /\ thrown = "none"
    /\ raised = "none"

\* inference: one generator, driven to its end
Next == Call \/ GenNext

Spec == Init /\ [][Next]_vars

\* training
FitNext == fit

FitSpec == Init /\ [][FitNext]_vars

\* persistence
PersistNext == save \/ load

PersistSpec == Init /\ [][PersistNext]_vars

\* ------------------------------------------------------------ the claims
\* the turns a raw batch makes available to sample i, before any cut
RawTurns(xb, i) ==
    IF Len(xb.items) = 0 THEN << << >> >>
    ELSE IF xb.isstr
         THEN IF Len(xb.items) = 1 THEN SplitOn(xb.items[1], "&") ELSE <<xb.items[i]>>
         ELSE xb.items[i]

\* the samples a raw batch stands for
NumSamples(xb) == IF Len(xb.items) = 0 THEN 1 ELSE Len(xb.items)

IsArr(e) == DOMAIN e = {"ndarray"}

\* the ids the vocabulary returned for turn j of record i
Encoded(i, j) ==
    [k \in 1..Len(vocab_calls[i][j]) |-> T2I(vocab, vocab_calls[i][j][k])]

\* the first n elements, the last n elements
FirstN(s, n) == SubSeq(s, 1, n)

LastN(s, n) == SubSeq(s, Len(s) - n + 1, Len(s))

\* C1: every record has 2K elements, K = min(turns available in the sample,
\* num_context_turns + num_ranking_samples): K padded turns, then the K raw
\* turn strings, whatever the shape of the raw batch.
C1_KeptTurns ==
    \A i \in 1..Len(out) :
        LET K == Min2(Len(RawTurns(x, i)), num_context_turns + num_ranking_samples) IN
        /\ Len(out[i]) = 2 * K
        /\ \A j \in 1..K : /\ IsArr(out[i][j])
                           /\ out[i][K + j] = PyStr(RawTurns(x, i)[j])

\* the largest number of tokens in a single turn of a sample
LongestTurn(el) == MaxOf([j \in 1..Len(el) |-> Len(Tokenize(el[j]))])

\* C2: the target length of a record is max_sequence_length in static mode
\* and min(most tokens in one turn of the sample, max_sequence_length) in
\* dynamic mode; it never exceeds max_sequence_length.
C2_TargetLength ==
    \A i \in 1..Len(msls) :
        /\ msls[i] <= max_sequence_length
        /\ msls[i] = IF dynamic_batch
                     THEN Min2(LongestTurn(x_preproc[i]), max_sequence_length)
                     ELSE max_sequence_length

\* C3: every padded turn of a record has the record's length L; an encoded
\* turn of length L is unchanged, a longer one keeps its last L ids
\* (truncating = pre) or its first L ids (post), a shorter one gets L - length
\* zeros before it (padding = pre) or after it (post).
C3_PadTruncate ==
    \A i \in 1..Len(out) : \A j \in 1..Len(vocab_calls[i]) :
        LET e == Encoded(i, j)
            L == msls[i]
            p == out[i][j].ndarray
        IN  /\ Len(p) = L
            /\ Len(e) = L => p = e
            /\ Len(e) > L => p = IF truncating = "pre" THEN LastN(e, L) ELSE FirstN(e, L)
            /\ Len(e) < L => p = IF padding = "pre"
                                 THEN Zeros(L - Len(e)) \o e
                                 ELSE e \o Zeros(L - Len(e))

\* C3: one record holds a truncated turn and a padded turn, the two
\* directions differing
C3_Witness ==
    /\ padding # truncating
    /\ \E i \in 1..Len(out) : \E j1, j2 \in 1..Len(vocab_calls[i]) :
          /\ Len(Encoded(i, j1)) > msls[i]
          /\ Len(Encoded(i, j2)) < msls[i]
          /\ \E k \in 1..Len(Encoded(i, j2)) : Encoded(i, j2)[k] # 0

\* C4: one record per sample, in input order, each built from its own sample
\* alone, with one tokenizer call and one vocabulary call per sample, on the
\* sample's full turn list, and none for a sample before the records of the
\* samples ahead of it are out.
C4_OneRecordPerSample ==
    /\ Len(tok_calls) <= Len(out) + 1
    /\ Len(vocab_calls) <= Len(out) + 1
    /\ \A i \in 1..Len(out) :
          /\ tok_calls[i] = x_preproc[i]
          /\ Len(vocab_calls[i]) = Len(x_preproc[i])
          /\ \A j \in 1..Len(x_preproc[i]) :
                out[i][Len(x_preproc[i]) + j] = PyStr(x_preproc[i][j])
          /\ (x.isstr /\ Len(x.items) > 1) => x_preproc[i] = <<x.items[i]>>
    /\ (pc = "closed" /\ thrown = "none" /\ Len(x.items) > 0) => Len(out) = NumSamples(x)

\* C5: the empty raw batch yields one record, a padded turn of L zeros
\* followed by '', and raises nothing, in static and in dynamic mode.
C5_EmptyBatch ==
    (pc # "idle" /\ Len(x.items) = 0 /\ thrown = "none") =>
        /\ raised \in {"none", "StopIteration"}
        /\ Len(out) <= 1
        /\ pc = "closed" => Len(out) = 1
        /\ \A i \in 1..Len(out) : out[i] = <<Arr(Zeros(msls[i])), PyStr(<< >>)>>

\* C6: the vocabulary's id-mapping gets one token sequence per kept turn, in
\* turn order, none of them empty: [''] for a turn without tokens, the turn's
\* tokens otherwise.
C6_NoEmptyTokenSequence ==
    \A i \in 1..Len(vocab_calls) :
        /\ Len(vocab_calls[i]) = Len(x_preproc[i])
        /\ \A j \in 1..Len(vocab_calls[i]) :
              LET toks == Tokenize(x_preproc[i][j]) IN
              /\ Len(vocab_calls[i][j]) > 0
              /\ vocab_calls[i][j] = IF Len(toks) = 0 THEN << << >> >> ELSE toks

\* C6: one call carried a turn without tokens next to a turn with tokens
C6_Witness ==
    \E i \in 1..Len(vocab_calls) : \E j1, j2 \in 1..Len(vocab_calls[i]) :
        /\ Len(Tokenize(x_preproc[i][j1])) = 0
        /\ Len(Tokenize(x_preproc[i][j2])) > 1

\* the tokens the vocabulary knows, the special ones apart
Known(t) == \E n \in 3..Len(vocab) : vocab[n] = t

InVocabulary(toks) == SelectSeq(toks, Known)

\* a padded turn read back through the inverse vocabulary, pad ids skipped
Decode(p) ==
    LET ids == SelectSeq(p, LAMBDA n : n # 0) IN [k \in 1..Len(ids) |-> I2T(vocab, ids[k])]

\* C7 as claimed: decoding a padded turn, pad positions skipped, gives back
\* all the in-vocabulary tokens of the turn, in order.
C7_RoundTripAll ==
    \A i \in 1..Len(out) : \A j \in 1..Len(x_preproc[i]) :
        InVocabulary(Decode(out[i][j].ndarray))
            = InVocabulary(Tokenize(x_preproc[i][j]))

\* the tokens of a turn that truncation to length L keeps
KeptWindow(toks, L) ==
    IF Len(toks) <= L THEN toks
    ELSE IF truncating = "pre" THEN LastN(toks, L) ELSE FirstN(toks, L)

\* C7 amended: decoding a padded turn, pad positions skipped, gives back the
\* in-vocabulary tokens of the part of the turn that truncation to the
\* record's length L keeps (the whole turn if it has at most L tokens, else
\* its first L tokens with truncating = post, its last L with pre), in order.
C7_RoundTripKept ==
    \A i \in 1..Len(out) : \A j \in 1..Len(x_preproc[i]) :
        InVocabulary(Decode(out[i][j].ndarray))
            = InVocabulary(KeptWindow(Tokenize(x_preproc[i][j]), msls[i]))

\* C7: a turn was truncated, lost a known token and kept another
C7_Witness ==
    \E i \in 1..Len(out) : \E j \in 1..Len(x_preproc[i]) :
        LET toks == Tokenize(x_preproc[i][j]) IN
        /\ Len(toks) > msls[i]
        /\ InVocabulary(KeptWindow(toks, msls[i])) # << >>
        /\ InVocabulary(KeptWindow(toks, msls[i])) # InVocabulary(toks)

\* the tokens of a corpus: sample order, then turn order, then token order
FlatTokens(xc) == Flatten(Flatten([i \in 1..Len(xc) |-> Tokenizer(xc[i])]))

\* the token sequences of the turns of a corpus: sample order, then turn order
TurnTokens(xc) == Flatten([i \in 1..Len(xc) |-> Tokenizer(xc[i])])

\* C8 as claimed: each fit makes one call of the vocabulary's fit, and its
\* argument is the flat sequence of the tokens of all turns.
C8_FitFlatTokens ==
    /\ Len(vocab_fit_calls) = Len(fit_x)
    /\ \A n \in 1..Len(fit_x) :
          vocab_fit_calls[n]
              = [k \in 1..Len(FlatTokens(fit_x[n])) |-> PyStr(FlatTokens(fit_x[n])[k])]

\* what fit leaves as it was
FitLeaves == <<config, vocab_calls, vocab_saves, vocab_loads, saves, loads, gen>>

\* C8 amended: fit tokenizes every turn of every sample, uncut, and makes one
\* call of the vocabulary's fit, whose argument is the ordered sequence of the
\* turns' token sequences (sample order, then turn order; each a list of
\* tokens in token order, not merged into one flat token sequence); fit maps
\* no ids, pads nothing and changes nothing but the vocabulary.
C8_FitTurnTokens ==
    /\ [](/\ Len(vocab_fit_calls) = Len(fit_x)
          /\ tok_calls = Flatten(fit_x)
          /\ \A n \in 1..Len(fit_x) :
                vocab_fit_calls[n]
                    = [k \in 1..Len(TurnTokens(fit_x[n])) |->
                          PyList(TurnTokens(fit_x[n])[k])]
          /\ vocab_calls = << >>
          /\ out = << >>)
    /\ [][fit_x' # fit_x => UNCHANGED FitLeaves]_vars

\* C8: a fit on a sample with more turns than __call__ keeps, one of them
\* with several tokens
C8_Witness ==
    \E n \in 1..Len(fit_x) : \E i \in 1..Len(fit_x[n]) :
        /\ Len(fit_x[n][i]) > num_context_turns + num_ranking_samples
        /\ Len(Tokenize(fit_x[n][i][Len(fit_x[n][i])])) > 1
        /\ Len(vocab_fit_calls[n]) = Len(fit_x[n][i])

\* C9 as claimed: every save calls the vocabulary's save once and every load
\* calls the vocabulary's load once.
C9_BothDelegate == vocab_saves = saves /\ vocab_loads = loads

\* what save and load leave as they were
PersistLeaves == <<config, vocab, tok_calls, vocab_calls, vocab_fit_calls, fit_x, gen>>

\* C9 amended: every save calls the vocabulary's save once; load calls
\* nothing, the vocabulary's load included; neither changes the component.
C9_SaveDelegates ==
    /\ [](vocab_saves = saves /\ vocab_loads = 0)
    /\ [][(saves' # saves \/ loads' # loads) => UNCHANGED PersistLeaves]_vars
    /\ [][loads' # loads => UNCHANGED <<vocab_saves, vocab_loads>>]_vars

\* C9: save and load have both been called, save twice
C9_Witness == saves >= 2 /\ loads >= 1 /\ vocab_saves = 2

\* C10: when a collaborator throws while record i is being made, the caller
\* gets that very exception and record i is not yielded; from then on records
\* 0..i-1 are out, complete and in order, and neither a record nor a
\* collaborator call is ever added: next() only raises StopIteration.
C10_FailurePropagates ==
    /\ [](thrown # "none" =>
            /\ pc = "closed"
            /\ raised \in {thrown, "StopIteration"}
            /\ Len(out) < Len(x_preproc)
            /\ Len(tok_calls) = Len(out) + 1
            /\ Len(vocab_calls) = Len(out) + (IF thrown = "VocabError" THEN 1 ELSE 0)
            /\ \A i \in 1..Len(out) :
                  /\ Len(out[i]) = 2 * Len(x_preproc[i])
                  /\ \A j \in 1..Len(x_preproc[i]) :
                        /\ IsArr(out[i][j])
                        /\ out[i][Len(x_preproc[i]) + j] = PyStr(x_preproc[i][j]))
    /\ [][(thrown = "none" /\ thrown' # "none") => (raised' = thrown' /\ out' = out)]_vars
    /\ [][thrown # "none" => UNCHANGED <<out, tok_calls, vocab_calls, thrown>>]_vars

\* C10: the vocabulary threw on the second sample, after the first record,
\* and the caller asked for more
C10_Witness ==
    /\ thrown = "VocabError"
    /\ Len(out) = 1
    /\ Len(x_preproc) > 1
    /\ raised = "StopIteration"

====
